---- MODULE Spec2Model ----
(***************************************************************************)
(* SATA DATA SET MANAGEMENT (TRIM) erase path of libkernelflinger/sata.c:  *)
(* sata_erase_blocks -> is_dsm_trim_supported -> ata_dsm_trim.             *)
(*                                                                         *)
(* EFI_LBA is a 64-bit unsigned integer.  A 64-bit value is kept as its    *)
(* eight bytes in memory order (little endian, byte 1 the least            *)
(* significant), so that the arithmetic wraps modulo 2^64 as in C and the  *)
(* 64-bit store of start into range[i] is the byte copy it is.            *)
(***************************************************************************)
EXTENDS Integers, Sequences, FiniteSets, TLC

(***************************************************************************)
(* Constants of sata.c                                                     *)
(***************************************************************************)
TRIM_SUPPORTED_BIT == 1

BLOCK_SIZE == 512

MAX_SECTOR_PER_RANGE == 65535

ATA_CMD_DSM_TRIM_FEATURE == 1

\* sizeof(lba_range_entry_t): UINT16 lba[3]; UINT16 len; packed
RANGE_ENTRY_SIZE == 8

\* sizeof(EFI_LBA) in bytes
LBA_BYTES == 8

\* bytes of the lba[3] field of a range entry
LBA_FIELD_BYTES == 6

(***************************************************************************)
(* Bounds of the model                                                     *)
(***************************************************************************)
\* erase calls made in one behaviour
MaxCalls == 2

\* out-of-bounds passes of the build loop that are followed; a behaviour
\* that makes more is explored up to this many and no further
MaxOverrun == 8

\* AllocatePool cannot satisfy a request of 2^PoolLimitLog2 bytes or more
PoolLimitLog2 == 30

(***************************************************************************)
(* 64-bit unsigned arithmetic (UINT64 / EFI_LBA), modulo 2^64              *)
(***************************************************************************)
Pow2(n) == 2^n

\* the bytes k..LBA_BYTES of the model integer n, least significant first
RECURSIVE BytesOf(_, _)
BytesOf(n, k) ==
    IF k > LBA_BYTES THEN << >> ELSE <<n % 256>> \o BytesOf(n \div 256, k + 1)

U64Of(n) == BytesOf(n, 1)

U64Zero == <<0, 0, 0, 0, 0, 0, 0, 0>>

U64One == <<1, 0, 0, 0, 0, 0, 0, 0>>

\* UINT64_MAX, 2^64 - 1
U64Max == <<255, 255, 255, 255, 255, 255, 255, 255>>

\* 2^48, the first value that does not fit six bytes
U64Pow48 == <<0, 0, 0, 0, 0, 0, 1, 0>>

\* bytes k..LBA_BYTES of a + b with carry c into byte k
RECURSIVE AddBytes(_, _, _, _)
AddBytes(a, b, k, c) ==
    IF k > LBA_BYTES THEN << >>
    ELSE <<(a[k] + b[k] + c) % 256>> \o AddBytes(a, b, k + 1, (a[k] + b[k] + c) \div 256)

\* a + b (mod 2^64)
U64Add(a, b) == AddBytes(a, b, 1, 0)

\* bytes k..LBA_BYTES of a - b with borrow bw out of byte k - 1
RECURSIVE SubBytes(_, _, _, _)
SubBytes(a, b, k, bw) ==
    IF k > LBA_BYTES THEN << >>
    ELSE <<(a[k] - b[k] - bw + 256) % 256>>
         \o SubBytes(a, b, k + 1, IF a[k] - b[k] - bw < 0 THEN 1 ELSE 0)

\* a - b (mod 2^64)
U64Sub(a, b) == SubBytes(a, b, 1, 0)

\* a < b, unsigned
U64Lt(a, b) ==
    \E k \in 1..LBA_BYTES : a[k] < b[k] /\ \A j \in (k + 1)..LBA_BYTES : a[j] = b[j]

\* a <= b, unsigned
U64Le(a, b) == a = b \/ U64Lt(a, b)

\* long division by a small divisor d, most significant byte first: bytes
\* 1..k of the quotient, r the remainder carried down from the bytes above k
RECURSIVE DivBytes(_, _, _, _)
DivBytes(a, d, k, r) ==
    IF k = 0 THEN << >>
    ELSE DivBytes(a, d, k - 1, (r * 256 + a[k]) % d) \o <<(r * 256 + a[k]) \div d>>

RECURSIVE ModBytes(_, _, _, _)
ModBytes(a, d, k, r) ==
    IF k = 0 THEN r ELSE ModBytes(a, d, k - 1, (r * 256 + a[k]) % d)

\* a / d
U64DivSmall(a, d) == DivBytes(a, d, LBA_BYTES, 0)

\* a % d
U64ModSmall(a, d) == ModBytes(a, d, LBA_BYTES, 0)

\* bytes k..LBA_BYTES of a * m with carry c into byte k
RECURSIVE MulBytes(_, _, _, _)
MulBytes(a, m, k, c) ==
    IF k > LBA_BYTES THEN << >>
    ELSE <<(a[k] * m + c) % 256>> \o MulBytes(a, m, k + 1, (a[k] * m + c) \div 256)

\* a * m (mod 2^64) for a small factor m
U64MulSmall(a, m) == MulBytes(a, m, 1, 0)

\* the value of a as a model integer, for a < 2^31
U64ToNat(a) == a[1] + 256 * a[2] + 65536 * a[3] + 16777216 * a[4]

\* min(a, b) of lib.h, on 64-bit operands
U64Min(a, b) == IF U64Lt(a, b) THEN a ELSE b

(***************************************************************************)
(* EFI status codes and the EFI_ERROR test                                 *)
(***************************************************************************)
ErrorStatus == {"EFI_INVALID_PARAMETER", "EFI_NOT_FOUND", "EFI_UNSUPPORTED",
                "EFI_OUT_OF_RESOURCES", "EFI_DEVICE_ERROR", "EFI_TIMEOUT"}

EFI_ERROR(st) == st \in ErrorStatus

\* what BS->LocateDevicePath, BS->HandleProtocol, ata->PassThru and
\* alloc_aligned may return
LocateStatus == {"EFI_SUCCESS", "EFI_NOT_FOUND"}

ProtocolStatus == {"EFI_SUCCESS", "EFI_UNSUPPORTED"}

PassThruStatus == {"EFI_SUCCESS", "EFI_DEVICE_ERROR", "EFI_TIMEOUT"}

AllocStatus == {"EFI_SUCCESS", "EFI_OUT_OF_RESOURCES"}

(***************************************************************************)
(* Device paths: a sequence of nodes closed by an end node; the empty      *)
(* sequence stands for the NULL that DevicePathFromHandle returns.         *)
(***************************************************************************)
PciNode == [Type |-> "HARDWARE_DEVICE_PATH", SubType |-> "HW_PCI_DP"]

SataNode == [Type |-> "MESSAGING_DEVICE_PATH", SubType |-> "MSG_SATA_DP"]

UsbNode == [Type |-> "MESSAGING_DEVICE_PATH", SubType |-> "MSG_USB_DP"]

EndNode == [Type |-> "END_DEVICE_PATH_TYPE", SubType |-> "END_ENTIRE_DEVICE_PATH_SUBTYPE"]

NULL_DP == << >>

DevicePaths == {NULL_DP, <<PciNode, SataNode, EndNode>>, <<PciNode, UsbNode, EndNode>>,
                <<EndNode>>}

IsDevicePathEndType(n) == n.Type = "END_DEVICE_PATH_TYPE"

\* index of the first SATA messaging node before the end node, 0 for NULL
get_sata_device_path(p) ==
    LET hit == {k \in 1..Len(p) :
                   /\ p[k].Type = "MESSAGING_DEVICE_PATH"
                   /\ p[k].SubType = "MSG_SATA_DP"
                   /\ \A j \in 1..k : ~IsDevicePathEndType(p[j])}
    IN  IF hit = {} THEN 0 ELSE CHOOSE k \in hit : \A j \in hit : k <= j

(***************************************************************************)
(* Resolve stage of sata_erase_blocks (lines 197-222)                      *)
(***************************************************************************)
LocateFailed_ignored(st) == FALSE

LocateFailed(st) == EFI_ERROR(st)

ProtocolFailed(st) == EFI_ERROR(st)

\* outcome of the resolve stage: whether it went through, the status returned
\* when it did not, and the boot-service calls made
ResolveSteps(dp, locate, proto) ==
    LET evl == [op |-> "locate", ret |-> locate]
        evp == [op |-> "protocol", ret |-> proto]
    IN  IF dp = NULL_DP
        THEN [ok |-> FALSE, ret |-> "EFI_INVALID_PARAMETER", calls |-> << >>]
        ELSE IF LocateFailed(locate)
        THEN [ok |-> FALSE, ret |-> locate, calls |-> <<evl>>]
        ELSE IF get_sata_device_path(dp) = 0
        THEN [ok |-> FALSE, ret |-> "EFI_NOT_FOUND", calls |-> <<evl>>]
        ELSE IF ProtocolFailed(proto)
        THEN [ok |-> FALSE, ret |-> proto, calls |-> <<evl, evp>>]
        ELSE [ok |-> TRUE, ret |-> proto, calls |-> <<evl, evp>>]

(***************************************************************************)
(* Capability probe (is_dsm_trim_supported, lines 94-113)                  *)
(***************************************************************************)
\* x & TRIM_SUPPORTED_BIT
TrimBit(x) == (x \div TRIM_SUPPORTED_BIT) % 2

\* what the identify command may come back with: its status and the two
\* fields of ATA_IDENTIFY_DATA the probe reads
IdentifyReplies ==
    {[ret |-> "EFI_DEVICE_ERROR", trim |-> 1, max |-> 2]}
    \cup {[ret |-> "EFI_SUCCESS", trim |-> t, max |-> m] : t \in {0, 1, 2}, m \in {0, 2}}
    \cup {[ret |-> "EFI_SUCCESS", trim |-> t, max |-> m] : t \in {1, 3}, m \in {1, 65535}}

DsmTrimSupported_both(id) ==
    /\ ~EFI_ERROR(id.ret)
    /\ ~(TrimBit(id.trim) = 0 /\ id.max = 0)

DsmTrimSupported(id) ==
    /\ ~EFI_ERROR(id.ret)
    /\ ~(TrimBit(id.trim) = 0 \/ id.max = 0)

(***************************************************************************)
(* Sizing and range entries of ata_dsm_trim (lines 141-160)                *)
(***************************************************************************)
NrSectors(s, e) == U64Add(U64Sub(e, s), U64One)

NrRanges(nr_sectors) ==
    IF U64ModSmall(nr_sectors, MAX_SECTOR_PER_RANGE) # 0
    THEN U64Add(U64DivSmall(nr_sectors, MAX_SECTOR_PER_RANGE), U64One)
    ELSE U64DivSmall(nr_sectors, MAX_SECTOR_PER_RANGE)

NrBlocks(nr_ranges) ==
    IF U64ModSmall(U64MulSmall(nr_ranges, LBA_BYTES), BLOCK_SIZE) # 0
    THEN U64Add(U64DivSmall(U64MulSmall(nr_ranges, RANGE_ENTRY_SIZE), BLOCK_SIZE), U64One)
    ELSE U64DivSmall(U64MulSmall(nr_ranges, RANGE_ENTRY_SIZE), BLOCK_SIZE)

\* bytes asked of alloc_aligned
AllocSize(nr_blk) == U64MulSmall(nr_blk, BLOCK_SIZE)

\* the pool can hold a request of this size
PoolCanHold(size) ==
    \A k \in 1..LBA_BYTES :
        /\ k > (PoolLimitLog2 \div 8) + 1 => size[k] = 0
        /\ k = (PoolLimitLog2 \div 8) + 1 => size[k] < Pow2(PoolLimitLog2 % 8)

\* range[idx] lies inside the nr_blk * BLOCK_SIZE bytes allocated
InBuffer(idx, nr_blk) ==
    U64Lt(U64MulSmall(idx, RANGE_ENTRY_SIZE), AllocSize(nr_blk))

RangeLen_full(left) == MAX_SECTOR_PER_RANGE

\* left < MAX_SECTOR_PER_RANGE ? left : MAX_SECTOR_PER_RANGE, stored as UINT16
RangeLen(left) ==
    IF U64Lt(left, U64Of(MAX_SECTOR_PER_RANGE)) THEN U64ToNat(left) ELSE MAX_SECTOR_PER_RANGE

\* the eight bytes of range[i] after one pass of the loop body: the 64-bit
\* store of start, then the 16-bit store of len over its two top bytes
RangeEntry(s, e) ==
    LET len == RangeLen(NrSectors(s, e))
    IN  SubSeq(s, 1, LBA_FIELD_BYTES) \o <<len % 256, (len \div 256) % 256>>

\* the fields of a range entry as the device reads them
EntryLba(d) == SubSeq(d, 1, LBA_FIELD_BYTES) \o <<0, 0>>

EntryLen(d) == d[LBA_FIELD_BYTES + 1] + 256 * d[LBA_FIELD_BYTES + 2]

\* start += MAX_SECTOR_PER_RANGE
NextStart(s) == U64Add(s, U64Of(MAX_SECTOR_PER_RANGE))

(***************************************************************************)
(* Dispatch loop of ata_dsm_trim (lines 162-178)                           *)
(***************************************************************************)
ChunkCount_max(nr_blk, idx, max) == U64Of(max)

\* count = min(nr_blocks - i, max_dsm_block_nb)
ChunkCount(nr_blk, idx, max) == U64Min(U64Sub(nr_blk, idx), U64Of(max))

\* acb.AtaSectorCount = count: an 8-bit field takes the low byte
AtaSectorCount(count) == count[1]

\* ata_packet.OutTransferLength = count * BLOCK_SIZE, a UINT32
OutTransferLength(count) == U64ToNat(U64MulSmall(count, BLOCK_SIZE))

CommandFailed_never(st) == FALSE

\* if (EFI_ERROR(ret)) goto out
CommandFailed(st) == EFI_ERROR(st)

DsmCommand(nr_blk, idx, max, st) ==
    LET count == ChunkCount(nr_blk, idx, max)
    IN  [op |-> "dsm", ret |-> st,
         feature |-> ATA_CMD_DSM_TRIM_FEATURE,
         offset |-> U64MulSmall(idx, BLOCK_SIZE),
         length |-> OutTransferLength(count),
         sectors |-> AtaSectorCount(count)]

(***************************************************************************)
(* Erase requests (the start and end of sata_erase_blocks)                 *)
(***************************************************************************)
Span(s, e) == [start |-> s, end |-> e]

\* the span of n sectors that starts at s
SpanOfLen(s, n) == Span(s, U64Add(s, U64Of(n - 1)))

\* the first LBA the 48-bit field of a range entry cannot hold
Lba48Limit == U64Pow48

WellFormed(r) == U64Le(r.start, r.end)

\* spans of one, two and three range entries, at the bottom of the LBA space
LowSpans ==
    {SpanOfLen(U64Of(s), n) :
        s \in {0, 7},
        n \in {1, MAX_SECTOR_PER_RANGE, MAX_SECTOR_PER_RANGE + 1,
               2 * MAX_SECTOR_PER_RANGE, 2 * MAX_SECTOR_PER_RANGE + 1}}

\* spans whose range list takes two and three blocks
ManyBlockSpans ==
    {SpanOfLen(U64Of(3), (BLOCK_SIZE \div RANGE_ENTRY_SIZE) * MAX_SECTOR_PER_RANGE + 1),
     SpanOfLen(U64Zero, 2 * (BLOCK_SIZE \div RANGE_ENTRY_SIZE) * MAX_SECTOR_PER_RANGE + 5)}

\* spans just below, across and above 2^48
Lba48Spans ==
    {SpanOfLen(U64Sub(Lba48Limit, U64Of(MAX_SECTOR_PER_RANGE + 1)), MAX_SECTOR_PER_RANGE + 1),
     SpanOfLen(U64Sub(Lba48Limit, U64Of(10)), 20),
     SpanOfLen(Lba48Limit, 6),
     SpanOfLen(U64Add(Lba48Limit, U64Of(9)), MAX_SECTOR_PER_RANGE + 1)}

\* spans at the top of the 64-bit LBA space
TopSpans ==
    {Span(U64Sub(U64Max, U64Of(MAX_SECTOR_PER_RANGE)), U64Sub(U64Max, U64Of(MAX_SECTOR_PER_RANGE))),
     Span(U64Sub(U64Max, U64Of(10)), U64Sub(U64Max, U64Of(5))),
     Span(U64Sub(U64Max, U64Of(10)), U64Max),
     Span(U64Zero, U64Max)}

\* spans with end < start
MalformedSpans ==
    {Span(U64Of(5), U64Of(4)), Span(U64Of(5), U64Of(3)), Span(U64Max, U64One),
     Span(U64One, U64Zero)}

Requests == LowSpans \cup ManyBlockSpans \cup Lba48Spans \cup TopSpans \cup MalformedSpans

(***************************************************************************)
(* State                                                                   *)
(***************************************************************************)
VARIABLES
    pc,                 \* where the current erase call stands
    calls,              \* erase calls made so far
    dp,                 \* DevicePathFromHandle(handle) of the current call
    req,                \* start and end as passed to sata_erase_blocks
    ret,                \* the status the call returns
    max_dsm_block_nb,   \* sata_erase_blocks' local, set by the probe
    start,              \* ata_dsm_trim's parameter, advanced by the build loop
    end,                \* ata_dsm_trim's parameter
    nr_blocks,          \* ata_dsm_trim's local
    i,                  \* ata_dsm_trim's loop index (both loops)
    range,              \* the entries written into the buffer, range[0] first
    buf,                \* the allocation: "none", "allocated" or "freed"
    overrun,            \* entries written past the end of the allocation
    slack,              \* entries of writable memory behind the allocation,
                        \* counted up to MaxOverrun + 1 (more than are followed)
    log                 \* boot-service and pass-through calls of the current call

vars == <<pc, calls, dp, req, ret, max_dsm_block_nb, start, end, nr_blocks, i,
          range, buf, overrun, slack, log>>

trimvars == <<start, end, nr_blocks, i, range, buf, overrun, slack>>

Init ==
    /\ pc = "idle"
    /\ calls = 0
    /\ dp = NULL_DP
    /\ req = Span(U64Zero, U64Zero)
    /\ ret = "EFI_SUCCESS"
    /\ max_dsm_block_nb = 0
    /\ start = U64Zero
    /\ end = U64Zero
    /\ nr_blocks = U64Zero
    /\ i = U64Zero
    /\ range = << >>
    /\ buf = "none"
    /\ overrun = 0
    /\ slack = 0
    /\ log = << >>

(***************************************************************************)
(* sata_erase_blocks                                                       *)
(***************************************************************************)
\* the backend's erase_blocks slot is called; the locals of the call are
\* fresh (the values given here are never read before they are set)
EraseCall ==
    /\ pc \in {"idle", "returned"}
    /\ calls < MaxCalls
    /\ \E p \in DevicePaths, r \in Requests :
        /\ dp' = p
        /\ req' = r
    /\ calls' = calls + 1
    /\ pc' = "resolve"
    /\ ret' = "EFI_SUCCESS"
    /\ max_dsm_block_nb' = 0
    /\ start' = U64Zero
    /\ end' = U64Zero
    /\ nr_blocks' = U64Zero
    /\ i' = U64Zero
    /\ range' = << >>
    /\ buf' = "none"
    /\ overrun' = 0
    /\ slack' = 0
    /\ log' = << >>

\* lines 197-222: device path, ATA root handle, SATA node, pass-through protocol
Resolve ==
    /\ pc = "resolve"
    /\ \E locate \in LocateStatus, proto \in ProtocolStatus :
        LET r == ResolveSteps(dp, locate, proto)
        IN  /\ log' = log \o r.calls
            /\ IF r.ok
               THEN pc' = "probe" /\ ret' = ret
               ELSE pc' = "returned" /\ ret' = r.ret
    /\ UNCHANGED <<calls, dp, req, max_dsm_block_nb>>
    /\ UNCHANGED trimvars

\* lines 224-227 with is_dsm_trim_supported and sata_identify_data: one
\* identify command, then ata_dsm_trim or EFI_UNSUPPORTED
Probe ==
    /\ pc = "probe"
    /\ \E id \in IdentifyReplies :
        /\ log' = Append(log, [op |-> "identify", ret |-> id.ret,
                               trim |-> id.trim, max |-> id.max])
        /\ IF DsmTrimSupported(id)
           THEN /\ max_dsm_block_nb' = id.max
                /\ pc' = "trim"
                /\ ret' = ret
           ELSE /\ max_dsm_block_nb' = max_dsm_block_nb
                /\ pc' = "returned"
                /\ ret' = "EFI_UNSUPPORTED"
    /\ UNCHANGED <<calls, dp, req>>
    /\ UNCHANGED trimvars

(***************************************************************************)
(* ata_dsm_trim                                                            *)
(***************************************************************************)
AfterAllocFailure_out == "out"

\* return ret, line 153
AfterAllocFailure == "returned"

\* lines 141-154: size the buffer from the span and allocate it; how much
\* writable memory lies behind the allocation is the pool's choice
TrimAlloc ==
    /\ pc = "trim"
    /\ start' = req.start
    /\ end' = req.end
    /\ nr_blocks' = NrBlocks(NrRanges(NrSectors(req.start, req.end)))
    /\ \E st \in AllocStatus :
        /\ ~EFI_ERROR(st) => PoolCanHold(AllocSize(nr_blocks'))
        /\ log' = Append(log, [op |-> "alloc", ret |-> st, size |-> AllocSize(nr_blocks')])
        /\ ret' = st
        /\ IF EFI_ERROR(st)
           THEN pc' = AfterAllocFailure /\ buf' = buf /\ slack' = slack
           ELSE pc' = "build" /\ buf' = "allocated" /\ slack' \in 0..(MaxOverrun + 1)
    /\ i' = U64Zero
    /\ UNCHANGED <<calls, dp, req, max_dsm_block_nb, range, overrun>>

\* lines 156-160, one pass that writes inside the buffer
BuildIter ==
    /\ pc = "build"
    /\ U64Le(start, end)
    /\ InBuffer(i, nr_blocks)
    /\ range' = Append(range, RangeEntry(start, end))
    /\ start' = NextStart(start)
    /\ i' = U64Add(i, U64One)
    /\ UNCHANGED <<pc, calls, dp, req, ret, max_dsm_block_nb, end, nr_blocks, buf,
                   overrun, slack, log>>

\* lines 156-160, one pass whose store falls outside the allocation: the
\* behaviour is undefined; while the memory behind the buffer is writable it
\* is overwritten and the loop goes on, at the first entry that is not the
\* machine faults and the call never returns.  The loop itself sets no limit
\* on the entries written outside; the guard on the counter only ends the
\* exploration, it puts no fault where the memory is still writable
BuildOverrun ==
    /\ pc = "build"
    /\ U64Le(start, end)
    /\ ~InBuffer(i, nr_blocks)
    /\ \/ /\ overrun < slack
          /\ overrun < MaxOverrun
          /\ overrun' = overrun + 1
          /\ start' = NextStart(start)
          /\ i' = U64Add(i, U64One)
          /\ pc' = pc
       \/ /\ overrun = slack
          /\ pc' = "fault"
          /\ UNCHANGED <<overrun, start, i>>
    /\ UNCHANGED <<calls, dp, req, ret, max_dsm_block_nb, end, nr_blocks, range, buf,
                   slack, log>>

\* the build loop's test start <= end fails; the dispatch loop starts at i = 0
BuildExit ==
    /\ pc = "build"
    /\ ~U64Le(start, end)
    /\ i' = U64Zero
    /\ pc' = "dispatch"
    /\ UNCHANGED <<calls, dp, req, ret, max_dsm_block_nb, start, end, nr_blocks, range,
                   buf, overrun, slack, log>>

\* lines 162-178, one pass: one DATA SET MANAGEMENT command
Dispatch ==
    /\ pc = "dispatch"
    /\ U64Lt(i, nr_blocks)
    /\ \E st \in PassThruStatus :
        /\ log' = Append(log, DsmCommand(nr_blocks, i, max_dsm_block_nb, st))
        /\ ret' = st
        /\ IF CommandFailed(st)
           THEN pc' = "out" /\ i' = i
           ELSE pc' = pc /\ i' = U64Add(i, U64Of(max_dsm_block_nb))
    /\ UNCHANGED <<calls, dp, req, max_dsm_block_nb, start, end, nr_blocks, range, buf,
                   overrun, slack>>

\* the dispatch loop's test i < nr_blocks fails
DispatchExit ==
    /\ pc = "dispatch"
    /\ ~U64Lt(i, nr_blocks)
    /\ pc' = "out"
    /\ UNCHANGED <<calls, dp, req, ret, max_dsm_block_nb, start, end, nr_blocks, i,
                   range, buf, overrun, slack, log>>

\* lines 180-183: FreePool(buf); return ret
Out ==
    /\ pc = "out"
    /\ log' = Append(log, [op |-> "free", ret |-> "EFI_SUCCESS", was |-> buf])
    /\ buf' = "freed"
    /\ pc' = "returned"
    /\ UNCHANGED <<calls, dp, req, ret, max_dsm_block_nb, start, end, nr_blocks, i,
                   range, overrun, slack>>

Next ==
    \/ EraseCall
    \/ Resolve
    \/ Probe
    \/ TrimAlloc
    \/ BuildIter
    \/ BuildOverrun
    \/ BuildExit
    \/ Dispatch
    \/ DispatchExit
    \/ Out

Spec == Init /\ [][Next]_vars

(***************************************************************************)
(* The state at the entry of the dispatch loop (line 162) of a call whose  *)
(* span takes n range entries, in closed form: what n passes of BuildIter  *)
(* and BuildExit leave behind.  DispatchEntryMatches checks it against the *)
(* step-by-step build.                                                     *)
(***************************************************************************)
SataPath == <<PciNode, SataNode, EndNode>>

\* the build loop's cursor at pass k (k = 0 first)
StartAt(r, k) == U64Add(r.start, U64Of(k * MAX_SECTOR_PER_RANGE))

BuiltRange(r, n) == [k \in 1..n |-> RangeEntry(StartAt(r, k - 1), r.end)]

EntryLog(r, id) ==
    <<[op |-> "locate", ret |-> "EFI_SUCCESS"],
      [op |-> "protocol", ret |-> "EFI_SUCCESS"],
      [op |-> "identify", ret |-> id.ret, trim |-> id.trim, max |-> id.max],
      [op |-> "alloc", ret |-> "EFI_SUCCESS",
       size |-> AllocSize(NrBlocks(NrRanges(NrSectors(r.start, r.end))))]>>

AtDispatchEntry(r, id, n) ==
    /\ pc = "dispatch"
    /\ dp = SataPath
    /\ req = r
    /\ ret = "EFI_SUCCESS"
    /\ max_dsm_block_nb = id.max
    /\ start = StartAt(r, n)
    /\ end = r.end
    /\ nr_blocks = NrBlocks(NrRanges(NrSectors(r.start, r.end)))
    /\ i = U64Zero
    /\ range = BuiltRange(r, n)
    /\ buf = "allocated"
    /\ overrun = 0
    /\ log = EntryLog(r, id)

\* spans of 16321 and 16385 range entries: range lists of 256 and 257 blocks
LargeEntries == {255 * (BLOCK_SIZE \div RANGE_ENTRY_SIZE) + 1,
                 256 * (BLOCK_SIZE \div RANGE_ENTRY_SIZE) + 1}

LargeReplies == {[ret |-> "EFI_SUCCESS", trim |-> 1, max |-> m] : m \in {256, 65535}}

InitDispatch ==
    /\ calls = 1
    /\ slack \in 0..(MaxOverrun + 1)
    /\ \E n \in LargeEntries, id \in LargeReplies :
        AtDispatchEntry(SpanOfLen(U64Zero, n * MAX_SECTOR_PER_RANGE), id, n)

SpecDispatch == InitDispatch /\ [][Next]_vars

(***************************************************************************)
(* Reading the log of a call                                               *)
(***************************************************************************)
IsDsm(e) == e.op = "dsm"

IsIdentify(e) == e.op = "identify"

IsAlloc(e) == e.op = "alloc"

IsFree(e) == e.op = "free"

DsmCmds == SelectSeq(log, IsDsm)

Identifies == SelectSeq(log, IsIdentify)

Allocs == SelectSeq(log, IsAlloc)

Frees == SelectSeq(log, IsFree)

\* the build loop is over
Built == buf # "none" /\ pc \in {"dispatch", "out", "returned"}

\* ceil(t / m) for model integers
CeilDiv(t, m) == (t + m - 1) \div m

MinNat(a, b) == IF a < b THEN a ELSE b

RECURSIVE SumLen(_)
SumLen(rs) == IF rs = << >> THEN 0 ELSE EntryLen(Head(rs)) + SumLen(Tail(rs))

\* the closed form of the dispatch-entry state agrees with the build loop
DispatchEntryMatches ==
    (pc = "dispatch" /\ i = U64Zero /\ DsmCmds = << >> /\ WellFormed(req))
        => AtDispatchEntry(req, [ret |-> Identifies[1].ret, trim |-> Identifies[1].trim,
                                 max |-> Identifies[1].max], Len(range))

(***************************************************************************)
(* Range list (C1, C8, C9)                                                 *)
(***************************************************************************)
\* the entries written so far start at the span's start, follow one another
\* without gap or overlap, have run lengths in 1..65535 and, once the loop is
\* over, run lengths that sum to end - start + 1
RangeListExact ==
    /\ \A k \in 1..Len(range) :
        /\ EntryLen(range[k]) \in 1..MAX_SECTOR_PER_RANGE
        /\ EntryLba(range[k]) =
              IF k = 1 THEN req.start
              ELSE U64Add(EntryLba(range[k - 1]), U64Of(EntryLen(range[k - 1])))
    /\ Built => U64Of(SumLen(range)) = NrSectors(req.start, req.end)

\* C1 as stated: for every span with end >= start the entries the build loop
\* writes are contiguous from start, each 1..65535 long, and sum to the span
C1_RangeListAnySpan == WellFormed(req) => RangeListExact

\* C1 amended: the same for every span with start <= end < 2^48, the LBAs
\* the 48-bit field of a range entry can hold
C1_RangeListBelow48 ==
    (WellFormed(req) /\ U64Lt(req.end, Lba48Limit)) => RangeListExact

\* a finished list of three entries, the last one sector long, away from LBA 0
C1_Witness ==
    /\ pc = "dispatch"
    /\ WellFormed(req)
    /\ U64Lt(req.end, Lba48Limit)
    /\ req.start # U64Zero
    /\ Len(range) = 3
    /\ EntryLen(range[3]) = 1

\* C8: for every span with end >= start the build loop writes exactly
\* nr_ranges entries, all of them inside the buffer, which is the smallest
\* multiple of 512 bytes that holds 8 * nr_ranges bytes
C8_EntryCountFitsBuffer ==
    (WellFormed(req) /\ buf # "none") =>
        LET nr_ranges == NrRanges(NrSectors(req.start, req.end))
            bytes == U64MulSmall(nr_ranges, RANGE_ENTRY_SIZE)
        IN  /\ overrun = 0
            /\ pc # "fault"
            /\ U64Le(U64Of(Len(range)), nr_ranges)
            /\ Built => U64Of(Len(range)) = nr_ranges
            /\ U64Le(bytes, AllocSize(nr_blocks))
            /\ U64Lt(U64Sub(AllocSize(nr_blocks), bytes), U64Of(BLOCK_SIZE))

\* C9: for every span with start <= end the build loop terminates and the
\* call reaches a terminal outcome: the cursor never wraps below the span's
\* start (from where start <= end holds again), the loop's test can fail
\* (end is not the largest LBA), and the call never faults
C9_BuildLoopTerminates ==
    WellFormed(req) =>
        /\ pc # "fault"
        /\ pc = "build" => (U64Le(req.start, start) /\ end # U64Max)

(***************************************************************************)
(* Dispatch (C2, C4, C10)                                                  *)
(***************************************************************************)
\* C2: when every command succeeds, a buffer of T blocks goes out in
\* ceil(T / M) commands, command j at byte offset j * M * 512 with
\* min(T - j * M, M) blocks
C2_Chunking ==
    (pc = "returned" /\ buf = "freed" /\ ret = "EFI_SUCCESS") =>
        LET T == U64ToNat(nr_blocks)
            M == max_dsm_block_nb
            cmds == DsmCmds
        IN  /\ M > 0
            /\ Len(cmds) = CeilDiv(T, M)
            /\ \A j \in 0..(Len(cmds) - 1) :
                /\ cmds[j + 1].offset = U64Of(j * M * BLOCK_SIZE)
                /\ cmds[j + 1].length = MinNat(T - j * M, M) * BLOCK_SIZE
                /\ cmds[j + 1].length <= M * BLOCK_SIZE

\* three blocks sent to a device that takes two per command
C2_Witness ==
    /\ pc = "returned"
    /\ ret = "EFI_SUCCESS"
    /\ U64ToNat(nr_blocks) = 3
    /\ max_dsm_block_nb = 2
    /\ Len(DsmCmds) = 2
    /\ DsmCmds[2].length = BLOCK_SIZE

\* C4: a failed command is the last one issued and its status is what the
\* call returns; the commands before it went out once each, in order; the
\* call returns success only after all ceil(T / M) commands succeeded
C4_StopAtFirstFailure ==
    LET cmds == DsmCmds
        M == max_dsm_block_nb
    IN  /\ \A k \in 1..Len(cmds) :
            /\ cmds[k].offset = U64Of((k - 1) * M * BLOCK_SIZE)
            /\ EFI_ERROR(cmds[k].ret) =>
                  /\ k = Len(cmds)
                  /\ pc \in {"out", "returned"}
                  /\ ret = cmds[k].ret
        /\ (pc = "returned" /\ buf = "freed" /\ ret = "EFI_SUCCESS") =>
              /\ Len(cmds) = CeilDiv(U64ToNat(nr_blocks), M)
              /\ \A k \in 1..Len(cmds) : cmds[k].ret = "EFI_SUCCESS"

\* the second of three commands timed out and the call returned just that
C4_Witness ==
    /\ pc = "returned"
    /\ ret = "EFI_TIMEOUT"
    /\ U64ToNat(nr_blocks) = 3
    /\ max_dsm_block_nb = 1
    /\ Len(DsmCmds) = 2
    /\ DsmCmds[1].ret = "EFI_SUCCESS"
    /\ DsmCmds[2].ret = "EFI_TIMEOUT"

\* C10: the sector count of every command issued equals the command's block
\* count, OutTransferLength / 512
C10_SectorCountIsBlockCount ==
    \A k \in 1..Len(DsmCmds) :
        DsmCmds[k].sectors = DsmCmds[k].length \div BLOCK_SIZE

(***************************************************************************)
(* Probe and the order of a call (C3, C6, C7)                              *)
(***************************************************************************)
Negative(e) == EFI_ERROR(e.ret) \/ TrimBit(e.trim) = 0 \/ e.max = 0

\* C3: a negative probe (identify failed, TRIM bit clear, or a block limit of
\* 0) makes the call return EFI_UNSUPPORTED with no buffer allocated and no
\* DATA SET MANAGEMENT command issued
C3_NegativeProbeUnsupported ==
    \A k \in 1..Len(Identifies) :
        Negative(Identifies[k]) =>
            /\ pc = "returned"
            /\ ret = "EFI_UNSUPPORTED"
            /\ buf = "none"
            /\ Allocs = << >>
            /\ DsmCmds = << >>

\* the device reports TRIM support with a block limit of 0
C3_Witness ==
    /\ pc = "returned"
    /\ Len(Identifies) = 1
    /\ Identifies[1].ret = "EFI_SUCCESS"
    /\ TrimBit(Identifies[1].trim) = 1
    /\ Identifies[1].max = 0

\* the place of a call's step in Resolve -> Probe -> BuildRanges -> Dispatch
Stage(e) ==
    CASE e.op = "locate" -> 1
      [] e.op = "protocol" -> 2
      [] e.op = "identify" -> 3
      [] e.op = "alloc" -> 4
      [] e.op = "dsm" -> 5
      [] e.op = "free" -> 6

\* C6: the steps of a call come in the order resolve, probe, build, dispatch,
\* each stage once; a failed resolve issues no command; a call past resolve
\* issues exactly one identify, before the allocation and before any
\* DATA SET MANAGEMENT command; such a command goes out only after a positive
\* identify of the same call and is cut to that identify's block limit
C6_StageOrder ==
    /\ \A j, k \in 1..Len(log) :
        j < k => /\ Stage(log[j]) <= Stage(log[k])
                 /\ Stage(log[j]) = Stage(log[k]) => log[j].op = "dsm"
    /\ (Identifies # << >> \/ DsmCmds # << >>) =>
          /\ dp # NULL_DP
          /\ get_sata_device_path(dp) # 0
          /\ Len(log) >= 2
          /\ log[1] = [op |-> "locate", ret |-> "EFI_SUCCESS"]
          /\ log[2] = [op |-> "protocol", ret |-> "EFI_SUCCESS"]
    /\ pc \in {"idle", "resolve", "probe"} => Identifies = << >>
    /\ pc \in {"trim", "build", "dispatch", "out", "fault"} => Len(Identifies) = 1
    /\ Len(Identifies) <= 1
    /\ (Allocs # << >> \/ DsmCmds # << >>) =>
          /\ Len(Identifies) = 1
          /\ ~Negative(Identifies[1])
          /\ max_dsm_block_nb = Identifies[1].max
          /\ \A k \in 1..Len(DsmCmds) :
                DsmCmds[k].length <= Identifies[1].max * BLOCK_SIZE

\* the second call of a behaviour got as far as a DATA SET MANAGEMENT command
C6_Witness ==
    /\ calls = 2
    /\ pc = "returned"
    /\ Len(DsmCmds) >= 2
    /\ Len(Frees) = 1

\* C7: a call with end < start allocates no buffer and issues no DATA SET
\* MANAGEMENT command, and once its probe was positive it returns
\* EFI_INVALID_PARAMETER
C7_MalformedSpanRejected ==
    ~WellFormed(req) =>
        /\ Allocs = << >>
        /\ DsmCmds = << >>
        /\ (pc = "returned" /\ Identifies # << >> /\ ~Negative(Identifies[1]))
              => ret = "EFI_INVALID_PARAMETER"

(***************************************************************************)
(* Buffer release (C5)                                                     *)
(***************************************************************************)
\* C5 as stated: every call that got to the probe has called FreePool exactly
\* once when it returns, whichever branch it took
C5_FreeOnceEveryBranch ==
    (pc = "returned" /\ Identifies # << >>) => Len(Frees) = 1

\* C5 amended: FreePool is called at most once per call and only on the
\* allocated buffer; a call that returns after a successful allocation has
\* called it exactly once, a call that returns without one (resolve failure,
\* negative probe, failed allocation) has not called it; no call returns with
\* the buffer still allocated
C5_FreeOnceIfAllocated ==
    /\ Len(Frees) <= 1
    /\ \A k \in 1..Len(Frees) : Frees[k].was = "allocated"
    /\ pc = "returned" =>
          /\ buf # "allocated"
          /\ Len(Frees) = 1 <=> (\E k \in 1..Len(Allocs) : ~EFI_ERROR(Allocs[k].ret))

\* a call whose second command failed has released its buffer once
C5_Witness ==
    /\ pc = "returned"
    /\ buf = "freed"
    /\ Len(Frees) = 1
    /\ Len(DsmCmds) = 2
    /\ EFI_ERROR(ret)

====
